---- MODULE Spec2Model ----
(***************************************************************************)
(* A model of deploy_pipeline.py: the deploy lock (a directory), the       *)
(* property record kept in it (deploy.prop), and main(), the dispatcher    *)
(* that every jenkins job of the pipeline runs with a different action.    *)
(*                                                                         *)
(* Several invocations of the script run at once (an acquire-lock busy-    *)
(* waits for up to an hour while other jobs run), so every invocation is a *)
(* process whose steps are its file-system calls; the steps of different   *)
(* invocations interleave.  PipeSpec is the same program with the stages   *)
(* of the pipeline run one at a time, beside the acquire-locks.            *)
(*                                                                         *)
(* Paths: the lock directory given with --lockdir is path 0; path k is     *)
(* that name followed by k times the suffix ".last".                       *)
(***************************************************************************)
EXTENDS Integers, FiniteSets, Sequences, TLC

\* ---------------------------------------------------------------- bounds
NumProcs == 2        \* invocations that can be running at the same time
MaxDepth == 2        \* longest chain of ".last" suffixes explored
MaxDeploys == 2      \* acquire-lock dispatches (records ever created)
MaxDispatch == 4     \* dispatches of main() in one behaviour
MaxOverlap == 1      \* dispatches that begin while another invocation runs
MaxPolls == 1        \* single 10-second polls one acquire is followed through
MaxAfter == 3        \* dispatches that follow an earlier deploy's in BackupSpec
MaxTime == 1         \* seconds the clock is followed through in ClockSpec

\* ------------------------------------------------------ program constants
wait_sec == 3600     \* acquire_deploy_lock's default
sleep_sec == 10      \* time.sleep(10) in the busy-wait
notify_sec == 600    \* acquire_deploy_lock's default

Procs == 1..NumProcs
Paths == 0..MaxDepth
Deploys == 1..MaxDeploys
\* The default of --token, '': no token.
NoToken == <<>>

\* --token: "a random string to serve as a unique identifier for this
\* deploy".  <<d>> is the string made up for deploy d.
NewTokens(deploy) == {NoToken, <<deploy>>}

Tokens == UNION {NewTokens(d) : d \in Deploys}

Actions ==
  {"acquire-lock", "merge-from-master", "manual-test", "set-default",
   "finish-with-unlock", "finish-with-success", "finish-with-failure",
   "finish-with-rollback", "relock"}

\* The steps _update_properties adds to every POSSIBLE_NEXT_STEPS it stores.
AlwaysPossible ==
  {"finish-with-failure", "finish-with-rollback", "finish-with-unlock", "relock"}

\* str(why) of the exceptions main() can catch.
Errors ==
  {"AssertionError", "KeyError", "Timed out", "IOError", "OSError",
   "merge failed", "MonitoringError", "merge to master failed",
   "Failed to roll back", "not .last", "already exists", "Could not release",
   "set-default failed", "URLError"}

\* How long the holder has held the lock when an acquire first looks:
\* int(time.time()) - LOCK_ACQUIRE_TIME, both read from the outside world.
HeldFor == {0, wait_sec}

\* No deploy.prop in a directory; also the empty dict {} of the source.
NoProps == [LOCKDIR |-> -1]

\* A deploy.prop without a line: open(..., 'w') has truncated it.
NoLines == [LOCKDIR |-> -2]

\* A record without the key LOCK_ACQUIRE_TIME: _create_properties sets none.
NoTime == -1

\* lockdir + '.last'
Last(lockdir) == lockdir + 1

\* An endswith that every path passes.
EndsWithAnything(lockdir) == TRUE

\* lockdir.endswith('.last')
EndsWithLast(lockdir) == lockdir > 0

\* lockdir[:-len('.last')]
StripLast(lockdir) == lockdir - 1

\* _create_properties: the record of a new deploy.  deploy stands for the
\* fields that identify the deploy and never change (DEPLOYER_EMAIL,
\* GIT_REVISION, ROLLBACK_TO, ...).
_create_properties(lockdir, auto_deploy, rollback_to, token, deploy) ==
  [LOCKDIR |-> lockdir,
   AUTO_DEPLOY |-> auto_deploy,
   ROLLBACK_TO |-> rollback_to,
   TOKEN |-> token,
   DEPLOY |-> deploy,
   LAST_ERROR |-> "",
   LOCK_ACQUIRE_TIME |-> NoTime,
   POSSIBLE_NEXT_STEPS |-> {"acquire-lock", "finish-with-unlock", "relock"}]

\* An _update_properties that stores POSSIBLE_NEXT_STEPS as it is given,
\* without the four actions that are always possible.
UpdatedWithoutHatches(props, new_values, time) ==
  [k \in DOMAIN props |->
     IF k \in DOMAIN new_values
     THEN new_values[k]
     ELSE IF k = "LOCK_ACQUIRE_TIME" /\ "LOCKDIR" \in DOMAIN new_values
          THEN time
          ELSE props[k]]

\* _update_properties, up to the write: props.update(new_values) after the
\* dependent values have been added to new_values.  A new LOCKDIR brings
\* LOCK_ACQUIRE_TIME = int(time.time()) with it; time is the clock's reading.
UpdatedValues(props, new_values, time) ==
  [k \in DOMAIN props |->
     IF k \in DOMAIN new_values
     THEN IF k = "POSSIBLE_NEXT_STEPS"
          THEN new_values[k] \cup AlwaysPossible
          ELSE new_values[k]
     ELSE IF k = "LOCK_ACQUIRE_TIME" /\ "LOCKDIR" \in DOMAIN new_values
          THEN time
          ELSE props[k]]

\* A main() without the token check.
TokenNeverChecked(token, props) == FALSE

\* The token check of main(): the caller gave a token, the record has one,
\* and they differ.
TokenMismatch(token, props) ==
  token # NoToken /\ props.TOKEN # NoToken /\ token # props.TOKEN

\* A main() without the next-step check.
EveryActionExpected(action, props) == FALSE

\* A next-step check that does not know the wildcard.
UnexpectedWithoutWildcard(action, props) ==
  action \notin props.POSSIBLE_NEXT_STEPS

\* The next-step check of main().
UnexpectedAction(action, props) ==
  /\ action \notin props.POSSIBLE_NEXT_STEPS
  /\ "<all>" \notin props.POSSIBLE_NEXT_STEPS

\* release_deploy_lock is called with backup_lockfile=False only by
\* finish_with_success, which set-default also calls under AUTO_DEPLOY.
BackupLockfile(action) ==
  action \in {"finish-with-unlock", "finish-with-failure", "finish-with-rollback"}

VARIABLES
  dirs,         \* the lock directories that exist
  deploy_prop,  \* deploy_prop[d]: the record in d/deploy.prop, or NoProps
  inv,          \* inv[p]: the invocation of main() process p is running
  last,         \* how the invocation that ended in the last step ended
  ndispatch,    \* dispatches so far
  noverlap,     \* dispatches so far that began while another invocation ran
  ndeploys,     \* records created so far
  now,          \* int(time.time())
  gae,          \* the version that is the default on appengine: 0, the one
                \* there was at first, or d, the one deploy d uploaded
  git,          \* git.bad: the versions tagged gae-<version>-bad;
                \* git.pushed: those whose tag has been pushed;
                \* git.master: the deploy whose commit is origin/master, 0
                \* for the commit there was at first
  mkdirs,       \* os.mkdir calls that created path 0 since it was last released
  holders,      \* deploys whose acquire-lock or relock took path 0 and
                \* returned True, since path 0 was last released
  completed,    \* completed[d]: the stage handlers that have completed
                \* without raising for the record of deploy d
  let_go,       \* the record a release had in hand and took out of path 0
                \* into the backup, and the dispatches there had been; no
                \* os.mkdir of path 0 since
  io,           \* a deploy.prop as text: the record written, the text, the
                \* record read back and the text written from it; or a
                \* deployer: the email, hipchat's users, and the fields
                \* derived at creation and at update
  wait          \* the busy-wait of an acquire_deploy_lock that never finds
                \* the lock free: waited_sec, done_first_alert, and the
                \* waited_sec at which each alert was sent

vars ==
  <<dirs, deploy_prop, inv, last, ndispatch, noverlap, ndeploys, now, gae, git,
    mkdirs, holders, completed, let_go, io, wait>>

\* _update_properties(props, new_values) at the present time.
UpdatedProps(props, new_values) == UpdatedValues(props, new_values, now)

\* A process that runs nothing.  The fields after why are history: wrote, the
\* invocation has written a deploy.prop; took, its os.mkdir created path 0 or
\* its os.rename moved a backup there, and path 0 was not released since;
\* released, path 0 was released while it was in the busy-wait; after, the
\* deploys whose acquire-lock was over, its handler completed, when this
\* invocation began.
Idle ==
  [pc |-> "idle", action |-> "", props |-> NoProps, current_props |-> NoProps,
   waited_sec |-> 0, polls |-> 0, done_first_alert |-> FALSE, why |-> "",
   wrote |-> FALSE, took |-> FALSE, released |-> FALSE, after |-> {},
   calls |-> {}, alert |-> ""]

\* No release has moved path 0 to its backup, or an os.mkdir has made path 0
\* again since.
NotLetGo == [props |-> NoProps, ndispatch |-> 0]

\* No busy-wait is looked at alone.
NoWait == [pc |-> "none"]

\* No deploy.prop is looked at as text.
NoText == [pc |-> "none"]

\* A repository without tags of bad versions, whose origin/master is the
\* commit that was there at first.
NoTags == [bad |-> {}, pushed |-> {}, master |-> 0]

\* No invocation ended in the last step.
NoEnd ==
  [action |-> "", ret |-> "", note |-> "", wrote |-> FALSE, left |-> FALSE,
   why |-> "", alert |-> ""]

Init ==
  /\ dirs = {}
  /\ deploy_prop = [d \in Paths |-> NoProps]
  /\ inv = [p \in Procs |-> Idle]
  /\ last = NoEnd
  /\ ndispatch = 0
  /\ noverlap = 0
  /\ ndeploys = 0
  /\ now = 0
  /\ gae = 0
  /\ git = NoTags
  /\ mkdirs = 0
  /\ holders = {}
  /\ completed = [d \in Deploys |-> {}]
  /\ let_go = NotLetGo
  /\ io = NoText
  /\ wait = NoWait

\* ------------------------------------------------------- the file system

\* _read_properties(lockdir): open() raises IOError when there is no
\* deploy.prop; retval['LOCKDIR'] raises KeyError when the file has no line
\* (it is open for writing and not yet written); the sanity check raises
\* AssertionError when the record's LOCKDIR is not the directory it was read
\* from.
_read_properties(lockdir) ==
  IF lockdir \notin Paths \/ deploy_prop[lockdir] = NoProps THEN "IOError"
  ELSE IF deploy_prop[lockdir] = NoLines THEN "KeyError"
  ELSE IF deploy_prop[lockdir].LOCKDIR # lockdir THEN "AssertionError"
  ELSE "ok"

\* An os.mkdir that, like os.makedirs(exist_ok=True), never raises EEXIST.
MkdirNeverExists(lockdir) == FALSE

\* os.mkdir(lockdir) raises OSError(EEXIST) when the directory exists.
MkdirExists(lockdir) == lockdir \in dirs

\* open(lockdir/deploy.prop, 'w') raises IOError when lockdir does not exist.
CanWrite(lockdir) == lockdir \in dirs

\* os.path.exists(new_lockdir)
PathExists(lockdir) == lockdir \in dirs

\* os.rename(old, new) of directories: fails when old does not exist or new
\* is a directory with entries; a new that is an empty directory is replaced
\* on POSIX and refused elsewhere.
RenameResults(old, new) ==
  IF old \notin dirs THEN {"OSError"}
  ELSE IF new \notin dirs THEN {"ok"}
  ELSE IF deploy_prop[new] = NoProps THEN {"ok", "OSError"}
  ELSE {"OSError"}

\* The directories and records after a rename that succeeded.
Renamed(old, new) ==
  /\ dirs' = (dirs \ {old}) \cup {new}
  /\ deploy_prop' = [deploy_prop EXCEPT ![new] = deploy_prop[old], ![old] = NoProps]

\* The directories and records after shutil.rmtree(d) of an existing d.
Removed(d) ==
  /\ dirs' = dirs \ {d}
  /\ deploy_prop' = [x \in Paths |-> IF x = d THEN NoProps ELSE deploy_prop[x]]

\* Process p goes on as i and lockdir stops existing: it was removed or
\* renamed.  When lockdir is path 0, whoever had taken it has it no more, and
\* the waiting acquires have seen a release.
Released(p, i, lockdir) ==
  IF lockdir = 0
  THEN /\ mkdirs' = 0
       /\ holders' = {}
       /\ let_go' = IF i.pc = "mv_update" /\ i.props = deploy_prop[0]
                    THEN [props |-> i.props, ndispatch |-> ndispatch]
                    ELSE NotLetGo
       /\ inv' = [q \in Procs |->
            IF q = p THEN i
            ELSE [inv[q] EXCEPT !.took = FALSE,
                                !.released = (inv[q].pc = "acq_loop") \/ @]]
  ELSE /\ inv' = [inv EXCEPT ![p] = i]
       /\ UNCHANGED <<mkdirs, holders, let_go>>

\* ------------------------------------------------------- main(): the frame

\* Process p goes on as i.
Goes(p, i) ==
  /\ inv' = [inv EXCEPT ![p] = i]
  /\ last' = NoEnd
  /\ UNCHANGED <<mkdirs, holders, let_go>>

\* main() ends on p, whose invocation was i: it returned True or False, or
\* let an exception escape ("raised").  The deploy of an acquire-lock or a
\* relock that returns True, having taken path 0, holds it.
Ends(p, i, ret, note) ==
  /\ inv' = [inv EXCEPT ![p] = Idle]
  /\ last' = [action |-> i.action, ret |-> ret, note |-> note,
              wrote |-> i.wrote, left |-> i.took, why |-> i.why, alert |-> i.alert]
  /\ holders' =
       IF /\ ret = "True"
          /\ i.action \in {"acquire-lock", "relock"}
          /\ i.took
       THEN holders \cup {i.props.DEPLOY}
       ELSE holders
  /\ UNCHANGED <<mkdirs, let_go>>

\* An exception reaches the try block of main().  "except Exception, why"
\* touches no file when the action is acquire-lock: main() returns False.
Raises(p, i, why) ==
  IF i.action = "acquire-lock"
  THEN Ends(p, [i EXCEPT !.why = why], "False", "handler")
  ELSE Goes(p, [i EXCEPT !.pc = "exc", !.why = why])

\* A new invocation begins on process p, within the bounds.
Dispatched(p) ==
  LET overlaps == \E q \in Procs \ {p} : inv[q].pc # "idle"
  IN  /\ inv[p].pc = "idle"
      /\ ndispatch < MaxDispatch
      /\ overlaps => noverlap < MaxOverlap
      /\ ndispatch' = ndispatch + 1
      /\ noverlap' = IF overlaps THEN noverlap + 1 ELSE noverlap

\* The deploys whose acquire-lock has completed its handler and is running no
\* more.
AcquireOver ==
  {d \in Deploys :
     /\ "acquire-lock" \in completed[d]
     /\ \A q \in Procs :
          inv[q].action = "acquire-lock" => inv[q].props.DEPLOY # d}

\* As Rejected, for a main() that takes no action on a record with an error.
RejectedAfterError(action, token, props) ==
  IF TokenMismatch(token, props) THEN "token"
  ELSE IF UnexpectedAction(action, props) \/ props.LAST_ERROR # "" THEN "unexpected"
  ELSE ""

\* main(), the two checks before the handler: why the action is not run.
Rejected(action, token, props) ==
  IF TokenMismatch(token, props) THEN "token"
  ELSE IF UnexpectedAction(action, props) THEN "unexpected"
  ELSE ""

\* _write_properties(i.props) as a step of process p: the record is stored and
\* p goes on at pc, or open() raises IOError.
WriteProps(p, i, pc, ioerror) ==
  IF CanWrite(i.props.LOCKDIR)
  THEN /\ deploy_prop' = [deploy_prop EXCEPT ![i.props.LOCKDIR] = i.props]
       /\ Goes(p, [i EXCEPT !.pc = pc, !.wrote = TRUE])
  ELSE /\ Raises(p, i, ioerror)
       /\ UNCHANGED deploy_prop

\* The handler of a stage has completed for the record of deploy d.
Completes(d, action, written) ==
  completed' = IF written
               THEN [completed EXCEPT ![d] = @ \cup {action}]
               ELSE completed

\* --------------------------------------------------- acquire_deploy_lock

\* What acquire_deploy_lock uses of the record of the lock's holder.
Holder(props) ==
  [LOCKDIR |-> props.LOCKDIR, POSSIBLE_NEXT_STEPS |-> props.POSSIBLE_NEXT_STEPS]

\* The first value of waited_sec that ends the busy-wait when every poll
\* from w on finds the directory.
TimeoutAt(w) ==
  IF w >= wait_sec THEN w
  ELSE w + sleep_sec * (((wait_sec - w) + sleep_sec - 1) \div sleep_sec)

\* After the loop: current_props['POSSIBLE_NEXT_STEPS'] is a KeyError when
\* the holder's record could not be read; else the alert and RuntimeError.
AcquireTimeout(current_props) ==
  IF current_props = NoProps THEN "KeyError" ELSE "Timed out"

\* What the alert after the loop tells the deployer to do, going by
\* next_steps.
Suggestion(next_steps) ==
  IF next_steps \cap {"merge-from-master", "manual-test", "set-default"} # {}
  THEN "cancel their deploy"
  ELSE IF "finish-with-success" \in next_steps
  THEN "finish with success or roll back"
  ELSE "release the lock"

\* The alert of severity ERROR after the loop, "" when the KeyError comes
\* first.
StuckAlert(current_props) ==
  IF current_props = NoProps THEN ""
  ELSE Suggestion(current_props.POSSIBLE_NEXT_STEPS)

\* The busy-wait of invocation i is over and the lock was not acquired.
TimesOut(p, i) ==
  Raises(p, [i EXCEPT !.alert = StuckAlert(i.current_props)],
         AcquireTimeout(i.current_props))

\* "Assuming someone is holding the lock, who is it?": IOError leaves
\* current_props = {} and waited_sec = 0; the AssertionError of
\* _read_properties is not caught here.  held is what the clock makes of
\* int(time.time()) - LOCK_ACQUIRE_TIME.
AcquireRead(p, i, held) ==
  CASE _read_properties(i.props.LOCKDIR) = "IOError" ->
         Goes(p, [i EXCEPT !.pc = "acq_loop"])
    [] _read_properties(i.props.LOCKDIR) = "AssertionError" ->
         Raises(p, i, "AssertionError")
    [] _read_properties(i.props.LOCKDIR) = "KeyError" ->
         Ends(p, [i EXCEPT !.why = "KeyError"], "False", "no line")
    [] OTHER ->
         LET j == [i EXCEPT !.current_props = Holder(deploy_prop[i.props.LOCKDIR]),
                            !.waited_sec = held]
         IN  IF held < wait_sec
             THEN Goes(p, [j EXCEPT !.pc = "acq_loop"])
             ELSE TimesOut(p, j)

\* A dispatch of acquire-lock, up to the first look at the lock directory.
\* _create_properties runs git (via _gae_version) outside any try block.
MainAcquire(p, token, auto_deploy) ==
  /\ Dispatched(p)
  /\ ndeploys < MaxDeploys
  /\ ndeploys' = ndeploys + 1
  /\ \E gae_version_ok \in BOOLEAN, held \in HeldFor :
       LET i == [Idle EXCEPT !.action = "acquire-lock",
                             !.props = _create_properties(0, auto_deploy, gae, token,
                                                          ndeploys + 1)]
           no == Rejected(i.action, token, i.props)
       IN  IF ~gae_version_ok THEN Ends(p, [i EXCEPT !.props = NoProps], "raised", "create")
           ELSE IF no # "" THEN Ends(p, i, "True", no)
           ELSE AcquireRead(p, i, held)
  /\ UNCHANGED <<dirs, deploy_prop, now, io, wait, gae, git, completed>>

\* One turn of the while loop: os.mkdir, and on EEXIST the alert, the
\* sleep and waited_sec += 10.
AcquireMkdir(p) ==
  /\ inv[p].pc = "acq_loop"
  /\ IF MkdirExists(inv[p].props.LOCKDIR)
     THEN /\ inv[p].polls < MaxPolls
          /\ LET i == [inv[p] EXCEPT !.done_first_alert = TRUE,
                                     !.polls = @ + 1,
                                     !.waited_sec = @ + sleep_sec]
             IN  IF i.waited_sec < wait_sec
                 THEN Goes(p, i)
                 ELSE TimesOut(p, i)
          /\ UNCHANGED dirs
     ELSE /\ dirs' = dirs \cup {inv[p].props.LOCKDIR}
          /\ mkdirs' = mkdirs + 1
          /\ inv' = [inv EXCEPT ![p] = [@ EXCEPT !.pc = "acq_write", !.took = TRUE,
                                                  !.props.LOCK_ACQUIRE_TIME = now]]
          /\ last' = NoEnd
          /\ let_go' = NotLetGo
          /\ UNCHANGED holders
  /\ UNCHANGED <<deploy_prop, ndispatch, noverlap, ndeploys, now, io, wait, gae, git, completed>>

\* All the remaining turns of the while loop at once, each finding the
\* directory: the lock stays held until this caller's wait is over.
AcquireWaitOut(p) ==
  /\ inv[p].pc = "acq_loop"
  /\ MkdirExists(inv[p].props.LOCKDIR)
  /\ TimesOut(p, [inv[p] EXCEPT !.done_first_alert = TRUE,
                                !.waited_sec = TimeoutAt(@)])
  /\ UNCHANGED <<dirs, deploy_prop, ndispatch, noverlap, ndeploys, now, io, wait, gae, git, completed>>

\* main(): _write_properties(props) right after the lock is acquired.
AcquireWrite(p) ==
  /\ inv[p].pc = "acq_write"
  /\ WriteProps(p, inv[p], "acq_update", "IOError")
  /\ UNCHANGED <<dirs, ndispatch, noverlap, ndeploys, now, io, wait, gae, git, completed>>

\* main(): _update_properties(props, {'POSSIBLE_NEXT_STEPS': 'merge-from-master'})
AcquireUpdate(p) ==
  /\ inv[p].pc = "acq_update"
  /\ LET props == UpdatedProps(inv[p].props,
                    [POSSIBLE_NEXT_STEPS |-> {"merge-from-master"}])
     IN  /\ WriteProps(p, [inv[p] EXCEPT !.props = props], "fin_exists", "IOError")
         /\ Completes(props.DEPLOY, "acquire-lock", CanWrite(props.LOCKDIR))
  /\ UNCHANGED <<dirs, ndispatch, noverlap, ndeploys, now, io, wait, gae, git>>

\* ------------------------------------------------------ the stage handlers

\* New values that leave the stage itself among the next steps.
NextStepsKeepStage(action, props) ==
  CASE action = "merge-from-master" ->
         [POSSIBLE_NEXT_STEPS |->
            {"merge-from-master",
             IF props.AUTO_DEPLOY THEN "set-default" ELSE "manual-test",
             "finish-with-success"}]
    [] action = "manual-test" ->
         [POSSIBLE_NEXT_STEPS |-> {"manual-test", "set-default"}]
    [] action = "set-default" ->
         [POSSIBLE_NEXT_STEPS |-> {"set-default", "finish-with-success"}]
    [] action = "relock" -> [POSSIBLE_NEXT_STEPS |-> {"<all>"}]

\* A merge-from-master that sends every deploy straight to set-default.
NextStepsNoManualTest(action, props) ==
  CASE action = "merge-from-master" ->
         [POSSIBLE_NEXT_STEPS |-> {"set-default", "finish-with-success"}]
    [] action = "manual-test" -> [POSSIBLE_NEXT_STEPS |-> {"set-default"}]
    [] action = "set-default" -> [POSSIBLE_NEXT_STEPS |-> {"finish-with-success"}]
    [] action = "relock" -> [POSSIBLE_NEXT_STEPS |-> {"<all>"}]

\* The new values a stage stores when its handler has done its work.
NextSteps(action, props) ==
  CASE action = "merge-from-master" ->
         [POSSIBLE_NEXT_STEPS |->
            {IF props.AUTO_DEPLOY THEN "set-default" ELSE "manual-test",
             "finish-with-success"}]
    [] action = "manual-test" -> [POSSIBLE_NEXT_STEPS |-> {"set-default"}]
    [] action = "set-default" -> [POSSIBLE_NEXT_STEPS |-> {"finish-with-success"}]
    [] action = "relock" -> [POSSIBLE_NEXT_STEPS |-> {"<all>"}]

\* _current_gae_version() raised: the url-fetch failed three times over, or
\* its answer was no JSON.
NoVersion == -1

\* What _current_gae_version() can come to: the default version, or NoVersion.
LiveQuery == {gae, NoVersion}

\* What the try block of set_default can come to: every call returns; a call
\* before the switch of the default raises; the monitoring finds a regression
\* after the switch; another call raises after the switch.
SwitchOutcomes == {"ok", "not switched", "MonitoringError", "monitor failed"}

\* The call of _rollback_deploy's try block that raises, "" when none does.
RollbackSteps == {"", "tag", "push", "set_default", "tag -l"}

\* A handler that calls no collaborator and comes to next.
Plain(next) ==
  [next |-> next, gae |-> gae, git |-> git, calls |-> {}, alert |-> ""]

\* The last alert of set_default.
SetDefaultAlert(props, switch) ==
  CASE switch = "MonitoringError" -> "MonitoringError"
    [] switch = "ok" -> IF props.AUTO_DEPLOY THEN "" ELSE "Monitoring passed"
    [] OTHER -> "set-default failed"

\* As set_default, for a handler that re-raises with and without AUTO_DEPLOY.
SetDefaultReraises(props, switch) ==
  [why |-> IF switch = "ok" THEN ""
           ELSE IF switch = "MonitoringError" THEN "MonitoringError"
           ELSE "set-default failed",
   gae |-> IF switch = "not switched" THEN gae ELSE props.DEPLOY,
   alert |-> SetDefaultAlert(props, switch)]

\* set_default(props): the exception it raises, "" when it returns, the
\* default version it leaves and its last alert.  Without AUTO_DEPLOY both
\* except clauses alert and return.
set_default(props, switch) ==
  [why |-> IF switch = "ok" \/ ~props.AUTO_DEPLOY THEN ""
           ELSE IF switch = "MonitoringError" THEN "MonitoringError"
           ELSE "set-default failed",
   gae |-> IF switch = "not switched" THEN gae ELSE props.DEPLOY,
   alert |-> SetDefaultAlert(props, switch)]

\* As _rollback_deploy, for a rollback that does not compare the default
\* version with the record's.
RollbackUnconditional(props, live, failing) ==
  LET tagged == [git EXCEPT !.bad = @ \cup {props.DEPLOY}]
      pushed == [tagged EXCEPT !.pushed = tagged.bad]
  IN  IF live = NoVersion
      THEN [ret |-> "raised", calls |-> {}, gae |-> gae, git |-> git,
            critical |-> FALSE]
      ELSE IF failing = ""
      THEN [ret |-> "True", calls |-> {"tag", "push", "set_default", "tag -l"},
            gae |-> props.ROLLBACK_TO, git |-> pushed, critical |-> FALSE]
      ELSE [ret |-> "False", calls |-> {"tag"}, gae |-> gae, git |-> git,
            critical |-> TRUE]

\* _rollback_deploy(props): what it returns ("raised" when an exception
\* leaves it), the collaborators it called, the default version and the tags
\* it leaves, and whether it sent the critical alert.  live is the answer of
\* _current_gae_version(), failing the call of the try block that raises.
_rollback_deploy(props, live, failing) ==
  LET tagged == [git EXCEPT !.bad = @ \cup {props.DEPLOY}]
      pushed == [tagged EXCEPT !.pushed = tagged.bad]
  IN  IF live = NoVersion
      THEN [ret |-> "raised", calls |-> {}, gae |-> gae, git |-> git,
            critical |-> FALSE]
      ELSE IF live # props.DEPLOY
      THEN [ret |-> "True", calls |-> {}, gae |-> gae, git |-> git,
            critical |-> FALSE]
      ELSE CASE failing = "tag" ->
                  [ret |-> "False", calls |-> {"tag"}, gae |-> gae, git |-> git,
                   critical |-> TRUE]
             [] failing = "push" ->
                  [ret |-> "False", calls |-> {"tag", "push"}, gae |-> gae,
                   git |-> tagged, critical |-> TRUE]
             [] failing = "set_default" ->
                  [ret |-> "False", calls |-> {"tag", "push", "set_default"},
                   gae |-> gae, git |-> pushed, critical |-> TRUE]
             [] failing = "tag -l" ->
                  [ret |-> "False",
                   calls |-> {"tag", "push", "set_default", "tag -l"},
                   gae |-> props.ROLLBACK_TO, git |-> pushed, critical |-> TRUE]
             [] OTHER ->
                  [ret |-> "True",
                   calls |-> {"tag", "push", "set_default", "tag -l"},
                   gae |-> props.ROLLBACK_TO, git |-> pushed, critical |-> FALSE]

\* As finish_with_rollback, for a handler that goes on to finish_with_failure
\* whatever _rollback_deploy returns.
FinishWhateverRollback(props, live, failing) ==
  LET r == _rollback_deploy(props, live, failing)
  IN  [next |-> IF r.ret = "raised" THEN "URLError" ELSE "rel_rmold",
       gae |-> r.gae, git |-> r.git, calls |-> r.calls,
       alert |-> IF r.critical THEN "Auto-rollback failed" ELSE ""]

\* finish_with_rollback(props), up to release_deploy_lock: RuntimeError when
\* _rollback_deploy returns False, finish_with_failure when it returns True;
\* alert is the alert of severity CRITICAL of _rollback_deploy.
finish_with_rollback(props, live, failing) ==
  LET r == _rollback_deploy(props, live, failing)
  IN  [next |-> CASE r.ret = "raised" -> "URLError"
                  [] r.ret = "False" -> "Failed to roll back"
                  [] OTHER -> "rel_rmold",
       gae |-> r.gae, git |-> r.git, calls |-> r.calls,
       alert |-> IF r.critical THEN "Auto-rollback failed" ELSE ""]

\* The command of merge_to_master that fails, "" when none does.
MergeSteps == {"", "fetch", "merge", "push"}

\* merge_to_master(props): whether it returns, and the origin/master it
\* leaves.  Only a push that succeeds moves origin/master.
merge_to_master(props, failing) ==
  [ok |-> failing = "",
   git |-> IF failing = "" THEN [git EXCEPT !.master = props.DEPLOY] ELSE git]

\* As finish_with_success, for a handler that releases the lock whatever
\* comes of merge_to_master.
FinishWhateverMerge(props, live, failing) ==
  LET m == merge_to_master(props, failing)
  IN  [next |-> IF live = NoVersion THEN "URLError" ELSE "rel_rmold",
       gae |-> gae,
       git |-> IF live = NoVersion THEN git ELSE m.git,
       calls |-> {},
       alert |-> ""]

\* finish_with_success(props), up to release_deploy_lock: the exception of
\* _current_gae_version() or of merge_to_master, or the release.
finish_with_success(props, live, failing) ==
  LET m == merge_to_master(props, failing)
  IN  [next |-> IF live = NoVersion THEN "URLError"
                ELSE IF ~m.ok THEN "merge to master failed"
                ELSE "rel_rmold",
       gae |-> gae,
       git |-> IF live = NoVersion THEN git ELSE m.git,
       calls |-> {},
       alert |-> ""]

\* What the part of a handler that touches no lock directory can come to:
\* an exception (its message), or the pc of the handler's next step; with the
\* default version and the tags it leaves, and the collaborators a rollback
\* called.  The collaborators (git, appengine, the monitoring) fail or not as
\* they like.
HandlerOutcomes(action, props) ==
  CASE action = "merge-from-master" -> {Plain("upd"), Plain("merge failed")}
    [] action = "manual-test" -> {Plain("upd")}
    [] action = "set-default" ->
         UNION {LET r == set_default(props, switch)
                IN  IF r.why = "" /\ props.AUTO_DEPLOY
                    THEN {[finish_with_success(props, live, failing)
                             EXCEPT !.gae = r.gae] :
                            live \in {r.gae, NoVersion}, failing \in MergeSteps}
                    ELSE {[Plain(IF r.why # "" THEN r.why ELSE "upd")
                             EXCEPT !.gae = r.gae, !.alert = r.alert]} :
                switch \in SwitchOutcomes}
    [] action = "finish-with-unlock" -> {Plain("rel_rmold")}
    [] action = "finish-with-success" ->
         {finish_with_success(props, live, failing) :
            live \in LiveQuery, failing \in MergeSteps}
    [] action = "finish-with-failure" -> {Plain("rel_rmold")}
    [] action = "finish-with-rollback" ->
         {finish_with_rollback(props, live, failing) :
            live \in LiveQuery, failing \in RollbackSteps}
    [] action = "relock" ->
         IF EndsWithLast(props.LOCKDIR) THEN {Plain("rl_exists")}
         ELSE {Plain("not .last")}

\* A dispatch of any other action on lockdir, up to the handler's first
\* step on a lock directory.  IOError is the only exception of
\* _read_properties that main() catches.
MainOther(p, action, lockdir, token) ==
  /\ Dispatched(p)
  /\ action # "acquire-lock"
  /\ BackupLockfile(action) => lockdir < MaxDepth
  /\ LET i0 == [Idle EXCEPT !.action = action, !.after = AcquireOver]
         i == [i0 EXCEPT !.props = deploy_prop[lockdir]]
     IN  CASE _read_properties(lockdir) = "IOError" ->
                Ends(p, i0, "False", "no record") /\ UNCHANGED <<gae, git>>
           [] _read_properties(lockdir) = "AssertionError" ->
                Ends(p, i0, "raised", "corrupt") /\ UNCHANGED <<gae, git>>
           [] _read_properties(lockdir) = "KeyError" ->
                Ends(p, i0, "raised", "no line") /\ UNCHANGED <<gae, git>>
           [] OTHER ->
                IF Rejected(action, token, i.props) # ""
                THEN /\ Ends(p, i, "True", Rejected(action, token, i.props))
                     /\ UNCHANGED <<gae, git>>
                ELSE \E o \in HandlerOutcomes(action, i.props) :
                       /\ gae' = o.gae
                       /\ git' = o.git
                       /\ IF o.next \in Errors
                          THEN Raises(p, [i EXCEPT !.calls = o.calls,
                                                   !.alert = o.alert], o.next)
                          ELSE Goes(p, [i EXCEPT !.pc = o.next, !.calls = o.calls,
                                                 !.alert = o.alert])
  /\ UNCHANGED <<dirs, deploy_prop, ndeploys, now, io, wait, completed>>

\* main(): the _update_properties that ends merge-from-master, manual-test
\* and a set-default without AUTO_DEPLOY.
HandlerUpdate(p) ==
  /\ inv[p].pc = "upd"
  /\ LET props == UpdatedProps(inv[p].props, NextSteps(inv[p].action, inv[p].props))
     IN  /\ WriteProps(p, [inv[p] EXCEPT !.props = props], "fin_exists", "IOError")
         /\ Completes(props.DEPLOY, inv[p].action, CanWrite(props.LOCKDIR))
  /\ UNCHANGED <<dirs, ndispatch, noverlap, ndeploys, now, io, wait, gae, git>>


\* ------------------------------- release_deploy_lock, _move_lockdir, relock

\* The directory _move_lockdir renames to: lockdir + '.last' in a release,
\* lockdir without its '.last' in relock.
NewLockdir(action, lockdir) ==
  IF action = "relock" THEN StripLast(lockdir) ELSE Last(lockdir)

\* An IOError or OSError inside release_deploy_lock becomes the RuntimeError
\* 'Could not release the deploy-lock'; relock lets it through as it is.
MoveError(action, why) ==
  IF action = "relock" THEN why ELSE "Could not release"

\* release_deploy_lock: shutil.rmtree(old_lockdir), whatever comes of it.
ReleaseRmOld(p) ==
  /\ inv[p].pc = "rel_rmold"
  /\ Removed(Last(inv[p].props.LOCKDIR))
  /\ Goes(p, [inv[p] EXCEPT !.pc = IF BackupLockfile(inv[p].action)
                                   THEN "mv_exists" ELSE "rel_rmtree"])
  /\ UNCHANGED <<ndispatch, noverlap, ndeploys, now, io, wait, gae, git, completed>>

\* release_deploy_lock without a backup: shutil.rmtree(lockdir).
ReleaseRmtree(p) ==
  /\ inv[p].pc = "rel_rmtree"
  /\ LET lockdir == inv[p].props.LOCKDIR
     IN  IF PathExists(lockdir)
         THEN /\ Removed(lockdir)
              /\ Released(p, [inv[p] EXCEPT !.pc = "fin_exists"], lockdir)
              /\ Completes(inv[p].props.DEPLOY, inv[p].action, TRUE)
              /\ last' = NoEnd
         ELSE /\ Raises(p, inv[p], "Could not release")
              /\ UNCHANGED <<dirs, deploy_prop, completed>>
  /\ UNCHANGED <<ndispatch, noverlap, ndeploys, now, io, wait, gae, git>>

\* A relock that leaves the check of the primary path to _move_lockdir.
RelockWithoutCheck(p) ==
  /\ inv[p].pc = "rl_exists"
  /\ Goes(p, [inv[p] EXCEPT !.pc = "mv_exists"])
  /\ UNCHANGED <<dirs, deploy_prop, ndispatch, noverlap, ndeploys, now, io, wait, gae, git, completed>>

\* relock: "if os.path.exists(new_lockdir): raise OSError".
RelockExists(p) ==
  /\ inv[p].pc = "rl_exists"
  /\ IF PathExists(StripLast(inv[p].props.LOCKDIR))
     THEN Raises(p, inv[p], "already exists")
     ELSE Goes(p, [inv[p] EXCEPT !.pc = "mv_exists"])
  /\ UNCHANGED <<dirs, deploy_prop, ndispatch, noverlap, ndeploys, now, io, wait, gae, git, completed>>

\* _move_lockdir: "if os.path.exists(new_lockdir): raise OSError".
MoveExists(p) ==
  /\ inv[p].pc = "mv_exists"
  /\ IF PathExists(NewLockdir(inv[p].action, inv[p].props.LOCKDIR))
     THEN Raises(p, inv[p], MoveError(inv[p].action, "already exists"))
     ELSE Goes(p, [inv[p] EXCEPT !.pc = "mv_rename"])
  /\ UNCHANGED <<dirs, deploy_prop, ndispatch, noverlap, ndeploys, now, io, wait, gae, git, completed>>

\* _move_lockdir: os.rename(old_lockdir, new_lockdir).
MoveRename(p) ==
  /\ inv[p].pc = "mv_rename"
  /\ LET old == inv[p].props.LOCKDIR
         new == NewLockdir(inv[p].action, old)
     IN  \E r \in RenameResults(old, new) :
           IF r = "ok"
           THEN /\ Renamed(old, new)
                /\ Released(p, [inv[p] EXCEPT !.pc = "mv_update", !.took = (new = 0)], old)
                /\ last' = NoEnd
           ELSE /\ Raises(p, inv[p], MoveError(inv[p].action, "OSError"))
                /\ UNCHANGED <<dirs, deploy_prop>>
  /\ UNCHANGED <<ndispatch, noverlap, ndeploys, now, io, wait, gae, git, completed>>

\* _move_lockdir: _update_properties(props, {'LOCKDIR': new_lockdir}).
MoveUpdate(p) ==
  /\ inv[p].pc = "mv_update"
  /\ LET action == inv[p].action
         new == NewLockdir(action, inv[p].props.LOCKDIR)
         props == UpdatedProps(inv[p].props, [LOCKDIR |-> new])
     IN  /\ WriteProps(p, [inv[p] EXCEPT !.props = props],
                       IF action = "relock" THEN "rl_update" ELSE "fin_exists",
                       MoveError(action, "IOError"))
         /\ Completes(props.DEPLOY, action, action # "relock" /\ CanWrite(new))
  /\ UNCHANGED <<dirs, ndispatch, noverlap, ndeploys, now, io, wait, gae, git>>

\* main(): _update_properties(props, {'POSSIBLE_NEXT_STEPS': '<all>'})
RelockUpdate(p) ==
  /\ inv[p].pc = "rl_update"
  /\ LET props == UpdatedProps(inv[p].props, NextSteps("relock", inv[p].props))
     IN  /\ WriteProps(p, [inv[p] EXCEPT !.props = props], "fin_exists", "IOError")
         /\ Completes(props.DEPLOY, "relock", CanWrite(props.LOCKDIR))
  /\ UNCHANGED <<dirs, ndispatch, noverlap, ndeploys, now, io, wait, gae, git>>

\* ------------------------------------------------------ main(): the ending

\* main(): "if os.path.exists(os.path.join(props['LOCKDIR'], 'deploy.prop'))"
FinishExists(p) ==
  /\ inv[p].pc = "fin_exists"
  /\ IF _read_properties(inv[p].props.LOCKDIR) # "IOError"
     THEN Goes(p, [inv[p] EXCEPT !.pc = "fin_update"])
     ELSE Ends(p, inv[p], "True", "handler")
  /\ UNCHANGED <<dirs, deploy_prop, ndispatch, noverlap, ndeploys, now, io, wait, gae, git, completed>>

\* main(): _update_properties(props, {'LAST_ERROR': ''}); return True
FinishUpdate(p) ==
  /\ inv[p].pc = "fin_update"
  /\ LET i == [inv[p] EXCEPT !.props = UpdatedProps(@, [LAST_ERROR |-> ""])]
     IN  IF CanWrite(i.props.LOCKDIR)
         THEN /\ deploy_prop' = [deploy_prop EXCEPT ![i.props.LOCKDIR] = i.props]
              /\ Ends(p, [i EXCEPT !.wrote = TRUE], "True", "handler")
         ELSE /\ Raises(p, i, "IOError")
              /\ UNCHANGED deploy_prop
  /\ UNCHANGED <<dirs, ndispatch, noverlap, ndeploys, now, io, wait, gae, git, completed>>

\* An except block that returns False without storing the message.
ExceptStoresNothing(p) ==
  /\ inv[p].pc = "exc"
  /\ Ends(p, inv[p], "False", "handler")
  /\ UNCHANGED <<dirs, deploy_prop, ndispatch, noverlap, ndeploys, now, io, wait, gae, git, completed>>

\* main(): "except Exception, why" of an action that is not acquire-lock:
\* _update_properties(props, {'LAST_ERROR': str(why)}); return False.  The
\* exception of that write is nobody's to catch.
Except(p) ==
  /\ inv[p].pc = "exc"
  /\ LET i == [inv[p] EXCEPT !.props = UpdatedProps(@, [LAST_ERROR |-> inv[p].why])]
     IN  IF CanWrite(i.props.LOCKDIR)
         THEN /\ deploy_prop' = [deploy_prop EXCEPT ![i.props.LOCKDIR] = i.props]
              /\ Ends(p, [i EXCEPT !.wrote = TRUE], "False", "handler")
         ELSE /\ Ends(p, i, "raised", "handler")
              /\ UNCHANGED deploy_prop
  /\ UNCHANGED <<dirs, ndispatch, noverlap, ndeploys, now, io, wait, gae, git, completed>>

\* ------------------------------------------------------ the specifications

\* A stage of the pipeline is dispatched: any action but acquire-lock.
StageDispatch(p) ==
  \E action \in Actions, lockdir \in Paths, token \in Tokens :
    MainOther(p, action, lockdir, token)

\* Every other step of process p.
Step(p) ==
  \/ \E token \in NewTokens(ndeploys + 1), auto_deploy \in BOOLEAN :
       MainAcquire(p, token, auto_deploy)
  \/ AcquireMkdir(p)
  \/ AcquireWaitOut(p)
  \/ AcquireWrite(p)
  \/ AcquireUpdate(p)
  \/ HandlerUpdate(p)
  \/ ReleaseRmOld(p)
  \/ ReleaseRmtree(p)
  \/ RelockExists(p)
  \/ MoveExists(p)
  \/ MoveRename(p)
  \/ MoveUpdate(p)
  \/ RelockUpdate(p)
  \/ FinishExists(p)
  \/ FinishUpdate(p)
  \/ Except(p)

\* Invocations run at the same time, whatever their actions.
Next == \E p \in Procs : StageDispatch(p) \/ Step(p)

Spec == Init /\ [][Next]_vars

\* No stage of the pipeline is running: the running invocations, if any, are
\* acquire-locks.
NoStageRuns ==
  \A q \in Procs : inv[q].pc = "idle" \/ inv[q].action = "acquire-lock"

\* The stages of the pipeline run one at a time, as the jenkins jobs of one
\* pipeline do; the acquire-locks of other deploys run beside them.
PipeNext == \E p \in Procs : (NoStageRuns /\ StageDispatch(p)) \/ Step(p)

PipeSpec == Init /\ [][PipeNext]_vars

\* No invocation is running.
NothingRuns == \A q \in Procs : inv[q].pc = "idle"

\* A stage of the pipeline begins when the invocation before it has ended,
\* the acquire-lock that made its record too: jenkins starts a job of the
\* pipeline when the job before it is over.
SerialNext == \E p \in Procs : (NothingRuns /\ StageDispatch(p)) \/ Step(p)

SerialSpec == Init /\ [][SerialNext]_vars

\* The record of deploy 1 when its acquire-lock has returned True.
HeldProps(auto_deploy, token) ==
  [UpdatedProps(_create_properties(0, auto_deploy, gae, token, 1),
                [POSSIBLE_NEXT_STEPS |-> {"merge-from-master"}])
     EXCEPT !.LOCK_ACQUIRE_TIME = now]

\* The record that deploy 1's finish-with-unlock has then left in the backup.
BackupProps(auto_deploy, token) ==
  UpdatedProps(HeldProps(auto_deploy, token),
               [LOCKDIR |-> Last(0), LAST_ERROR |-> ""])

\* The state an earlier deploy leaves behind: acquire-lock, then
\* finish-with-unlock, one after the other, within one second.
BackupInit ==
  /\ now = 0
  /\ gae = 0
  /\ git = NoTags
  /\ dirs = {Last(0)}
  /\ ndispatch = MaxDispatch - MaxAfter
  /\ \E auto_deploy \in BOOLEAN, token \in NewTokens(1) :
       /\ deploy_prop = [d \in Paths |->
            IF d = Last(0) THEN BackupProps(auto_deploy, token) ELSE NoProps]
       /\ let_go = [props |-> HeldProps(auto_deploy, token), ndispatch |-> ndispatch]
  /\ inv = [p \in Procs |-> Idle]
  /\ last = NoEnd
  /\ noverlap = 0
  /\ ndeploys = 1
  /\ mkdirs = 0
  /\ holders = {}
  /\ completed = [d \in Deploys |->
       IF d = 1 THEN {"acquire-lock", "finish-with-unlock"} ELSE {}]
  /\ io = NoText
  /\ wait = NoWait

\* The program when an earlier deploy has left its backup.
BackupSpec == BackupInit /\ [][Next]_vars

\* ------------------------------------------------------------ properties

\* The clock goes on by a second or more, whatever the invocations are
\* doing.
Tick ==
  /\ now < MaxTime
  /\ now' = now + 1
  /\ UNCHANGED <<dirs, deploy_prop, inv, last, ndispatch, noverlap, ndeploys,
                 gae, git, mkdirs, holders, completed, let_go, io, wait>>

ClockNext == PipeNext \/ Tick

\* The stages of the pipeline run one at a time, beside the acquire-locks of
\* other deploys, while the clock goes on.
ClockSpec == Init /\ [][ClockNext]_vars

\* Process p is past the os.mkdir of an acquire-lock: acquire_deploy_lock has
\* returned, or is about to.
Acquired(p) ==
  /\ inv[p].action = "acquire-lock"
  /\ inv[p].pc \in {"acq_write", "acq_update", "fin_exists", "fin_update"}

\* C1: mutual exclusion of acquire.  Of the callers that run
\* acquire_deploy_lock at the same time on one lock path, at most one os.mkdir
\* creates the directory between two releases, and a caller whose os.mkdir
\* succeeds after it has waited (it found the directory at least once) has
\* seen the directory released in the meantime.
C1_MutualExclusion ==
  /\ mkdirs <= 1
  /\ \A p \in Procs :
       (Acquired(p) /\ inv[p].done_first_alert) => inv[p].released

\* Two acquires began on the free path; the os.mkdir of one has made the
\* directory and the other has found it there and waits.
C1_Witness ==
  \E p \in Procs, q \in Procs :
    /\ p # q
    /\ Acquired(p) /\ inv[p].took /\ ~inv[p].done_first_alert
    /\ inv[q].action = "acquire-lock" /\ inv[q].pc = "acq_loop"
    /\ inv[q].done_first_alert /\ inv[q].current_props = NoProps

\* C2: single holder.  Between two releases of the primary lock directory,
\* the acquire-locks and relocks that returned True on it are all of one
\* deploy.
C2_SingleHolder == Cardinality(holders) <= 1

\* The step ends the invocation of process p before any handler: main()
\* returns ret, having written nothing, and the directories and the records
\* are as they were.
TurnedAway(p, ret) ==
  /\ inv'[p].pc = "idle"
  /\ last'.ret = ret
  /\ ~last'.wrote
  /\ UNCHANGED <<dirs, deploy_prop, completed>>

\* C3: token isolation.  A dispatch that comes with a token, on a directory
\* whose record has another token, returns True at once: no handler runs, the
\* invocation writes nothing, and the directories and records are unchanged.
\* (acquire-lock loads no record: it checks the token against the record it
\* has just created from that token.)
C3_TokenIsolation ==
  [][\A lockdir \in Paths, token \in Tokens :
       ( /\ ndispatch' # ndispatch
         /\ _read_properties(lockdir) = "ok"
         /\ token # NoToken
         /\ deploy_prop[lockdir].TOKEN \notin {NoToken, token} )
       => \A p \in Procs, action \in Actions :
            MainOther(p, action, lockdir, token) => TurnedAway(p, "True")]_vars

\* A dispatch was turned away for its token.
C3_Witness == last.note = "token" /\ last.ret = "True"

\* C4: an illegal transition is ignored.  A dispatch of an action that is not
\* in the record's POSSIBLE_NEXT_STEPS, when these do not hold '<all>', returns
\* True at once: no handler runs, the invocation writes nothing, and the
\* directories and records are unchanged.
C4_IllegalTransitionIgnored ==
  [][\A lockdir \in Paths, action \in Actions :
       ( /\ ndispatch' # ndispatch
         /\ _read_properties(lockdir) = "ok"
         /\ action \notin deploy_prop[lockdir].POSSIBLE_NEXT_STEPS
         /\ "<all>" \notin deploy_prop[lockdir].POSSIBLE_NEXT_STEPS )
       => \A p \in Procs, token \in Tokens :
            MainOther(p, action, lockdir, token) => TurnedAway(p, "True")]_vars

\* A dispatch was turned away for its action, its token being no matter.
C4_Witness == last.note = "unexpected" /\ last.ret = "True"

\* C5: the escape hatches are always reachable.  Every record on disk has
\* finish-with-failure, finish-with-rollback, finish-with-unlock and relock
\* among its POSSIBLE_NEXT_STEPS.
C5_EscapeHatches ==
  \A d \in Paths :
    deploy_prop[d] # NoProps => AlwaysPossible \subseteq deploy_prop[d].POSSIBLE_NEXT_STEPS

\* C6: the dispatcher never lets an exception escape.  No invocation of main()
\* ends by raising.
C6_NeverRaises == last.ret # "raised"

\* C7: load failure.  A dispatch of an action other than acquire-lock on a
\* directory whose record cannot be loaded (there is none, or its LOCKDIR is
\* not the directory) returns False at once: no handler runs, and the
\* directories and records are unchanged.
C7_LoadFailure ==
  [][\A lockdir \in Paths :
       (ndispatch' # ndispatch /\ _read_properties(lockdir) # "ok")
       => \A p \in Procs, action \in Actions, token \in Tokens :
            MainOther(p, action, lockdir, token) => TurnedAway(p, "False")]_vars

\* The record process p would store has this LAST_ERROR on disk after the step.
Persisted(p, why) ==
  /\ deploy_prop'[inv[p].props.LOCKDIR] # NoProps
  /\ deploy_prop'[inv[p].props.LOCKDIR].LAST_ERROR = why

\* C8: outcome persistence, for the actions other than acquire-lock.  When
\* the handler has raised, the next step of the invocation ends main() with
\* False and the record on disk has the exception's message as LAST_ERROR.
\* When the handler has completed, main() looks for the record: if it is gone
\* main() returns True, and if it is there the next step ends main() with True
\* and the record on disk has an empty LAST_ERROR.
C8_OutcomePersistence ==
  [][\A p \in Procs :
       (inv[p].action # "acquire-lock" /\ inv'[p] # inv[p]) =>
         /\ inv[p].pc = "exc" =>
              /\ inv'[p].pc = "idle" /\ last'.ret = "False"
              /\ Persisted(p, inv[p].why)
         /\ inv[p].pc = "fin_exists" =>
              IF _read_properties(inv[p].props.LOCKDIR) = "IOError"
              THEN inv'[p].pc = "idle" /\ last'.ret = "True"
              ELSE inv'[p].pc = "fin_update"
         /\ inv[p].pc = "fin_update" =>
              /\ inv'[p].pc = "idle" /\ last'.ret = "True"
              /\ Persisted(p, "")]_vars

\* A handler raised, and main() stored the message and returned False.
C8_Witness ==
  /\ last.action \notin {"", "acquire-lock"}
  /\ last.ret = "False" /\ last.note = "handler" /\ last.wrote
  /\ \E d \in Paths : deploy_prop[d] # NoProps /\ deploy_prop[d].LAST_ERROR \in Errors

\* C9: a failed acquisition manufactures no lock.  An acquire-lock that
\* returned False has written no deploy.prop and has not left behind a lock
\* directory that its os.mkdir made.
C9_NoLockManufactured ==
  (last.action = "acquire-lock" /\ last.ret = "False") =>
    (~last.wrote /\ ~last.left)

\* The handler of action is running for a record that no relock has touched.
Handling(p, action) ==
  /\ inv[p].pc # "idle"
  /\ inv[p].action = action
  /\ "relock" \notin completed[inv[p].props.DEPLOY]

\* C10: stage ordering, for a record that no relock has completed on.  The
\* set-default handler runs only when merge-from-master has completed for the
\* record, and manual-test too when AUTO_DEPLOY is false; the
\* merge-from-master handler runs only when acquire-lock has completed.
C10_StageOrdering ==
  \A p \in Procs :
    LET done == completed[inv[p].props.DEPLOY]
    IN  /\ Handling(p, "set-default") =>
             /\ "merge-from-master" \in done
             /\ ~inv[p].props.AUTO_DEPLOY => "manual-test" \in done
        /\ Handling(p, "merge-from-master") => "acquire-lock" \in done

\* set-default is running for a deploy that is not automatic and that has
\* been through merge-from-master and manual-test, without a relock.
C10_Witness ==
  \E p \in Procs :
    /\ Handling(p, "set-default")
    /\ ~inv[p].props.AUTO_DEPLOY
    /\ {"merge-from-master", "manual-test"} \subseteq completed[inv[p].props.DEPLOY]

\* C11: the relock wildcard.  When a relock that ran its handler returns True,
\* the record in the directory it moved the lock to has '<all>' among its
\* POSSIBLE_NEXT_STEPS; and on a directory whose record has '<all>', every
\* dispatch of an action other than acquire-lock, with no token or with the
\* record's token, runs its handler.
C11_RelockWildcard ==
  [][/\ \A p \in Procs :
          ( /\ inv[p].action = "relock"
            /\ inv'[p].pc = "idle"
            /\ last'.ret = "True" )
          => ( /\ deploy_prop'[inv[p].props.LOCKDIR] # NoProps
               /\ "<all>" \in deploy_prop'[inv[p].props.LOCKDIR].POSSIBLE_NEXT_STEPS )
     /\ \A lockdir \in Paths :
          ( /\ ndispatch' # ndispatch
            /\ _read_properties(lockdir) = "ok"
            /\ "<all>" \in deploy_prop[lockdir].POSSIBLE_NEXT_STEPS )
          => \A p \in Procs, action \in Actions :
               \A token \in {NoToken, deploy_prop[lockdir].TOKEN} :
                 MainOther(p, action, lockdir, token) => inv'[p].pc # "idle"]_vars

\* After a relock, the handler of a stage runs that only the wildcard lets
\* through.
C11_Witness ==
  \E p \in Procs :
    /\ inv[p].pc # "idle"
    /\ inv[p].action \notin {"acquire-lock", "relock"}
    /\ "relock" \in completed[inv[p].props.DEPLOY]
    /\ "<all>" \in inv[p].props.POSSIBLE_NEXT_STEPS
    /\ inv[p].action \notin inv[p].props.POSSIBLE_NEXT_STEPS

\* C12: token immutability.  A step of an invocation that is not an
\* acquire-lock, and that began when the acquire-lock of deploy e was over,
\* does not change the TOKEN of a record of deploy e where it lies, in the lock
\* directory or in its backup.
C12_TokenImmutable ==
  [][\A p \in Procs, d \in Paths :
       ( /\ inv[p].action \notin {"", "acquire-lock"}
         /\ inv'[p] # inv[p]
         /\ deploy_prop[d] # NoProps
         /\ deploy_prop'[d] # NoProps
         /\ deploy_prop[d].DEPLOY \in inv[p].after )
       => deploy_prop'[d].TOKEN = deploy_prop[d].TOKEN]_vars


\* C13: only the holder writes.  A step that writes the deploy.prop of path 0
\* is a step of an invocation acting for the deploy that holds path 0: the
\* record it replaces is its own deploy's, or the directory has no record yet
\* and the invocation is the one that took it.
C13_OnlyHolderWrites ==
  [][\A p \in Procs :
       ( /\ inv[p].pc \notin {"idle", "mv_rename"}
         /\ inv'[p] # inv[p]
         /\ deploy_prop'[0] # deploy_prop[0]
         /\ deploy_prop'[0] # NoProps )
       => IF deploy_prop[0] = NoProps
          THEN inv[p].took
          ELSE deploy_prop[0].DEPLOY = deploy_prop'[0].DEPLOY]_vars


\* C14: bounded copies.  Of one lock path only the directory itself and its
\* '.last' backup ever exist: no directory with two '.last' suffixes or more.
C14_BoundedCopies == dirs \subseteq {0, Last(0)}


\* C15: a record whenever the directory.  In every state where path 0 exists
\* it holds a deploy.prop.
C15_RecordWithDirectory == 0 \in dirs => deploy_prop[0] # NoProps


\* C16: the relock inverse law.  When a release has moved the record R out of
\* path 0 into the backup, no os.mkdir has made path 0 since, and the next
\* dispatch is a relock of the backup, the record that relock's
\* _move_lockdir stores in path 0 equals R in every field but LOCKDIR.
C16_RelockInverse ==
  [][\A p \in Procs :
       ( /\ inv[p].action = "relock"
         /\ inv[p].pc = "mv_update"
         /\ inv'[p].pc = "rl_update"
         /\ inv[p].props.LOCKDIR = Last(0)
         /\ let_go.props # NoProps
         /\ ndispatch = let_go.ndispatch + 1 )
       => \A k \in DOMAIN let_go.props \ {"LOCKDIR"} :
            deploy_prop'[0][k] = let_go.props[k]]_vars


\* The invocation of process p is a relock of the backup of path 0 that has
\* raised because path 0 exists.
RelockRefused(p) ==
  /\ inv[p].action = "relock"
  /\ inv[p].pc = "exc"
  /\ inv[p].why = "already exists"
  /\ inv[p].props.LOCKDIR = Last(0)

\* C17 as stated: a relock that found the primary path taken ends leaving the
\* directories and every record, the backup's too, as they were.
C17_BothUntouched ==
  [][\A p \in Procs :
       (RelockRefused(p) /\ inv'[p].pc = "idle")
       => UNCHANGED <<dirs, deploy_prop>>]_vars

\* C17, amended: a relock of the backup whose check finds the primary path
\* raises; main() then returns False, no directory is renamed, made or
\* removed, the record in the primary directory is as it was, and the record
\* in the backup changes in LAST_ERROR alone, which gets the message.
C17_RelockTaken ==
  [][\A p \in Procs :
       /\ ( /\ inv[p].action = "relock"
            /\ inv[p].pc = "rl_exists"
            /\ inv[p].props.LOCKDIR = Last(0)
            /\ PathExists(0)
            /\ inv'[p] # inv[p] )
          => (RelockRefused(p))' /\ UNCHANGED <<dirs, deploy_prop>>
       /\ (RelockRefused(p) /\ inv'[p].pc = "idle")
          => /\ last'.ret = "False"
             /\ dirs' = dirs
             /\ deploy_prop' = [deploy_prop EXCEPT ![Last(0)].LAST_ERROR = "already exists"]]_vars

\* A relock has returned False on a backup while another deploy's record is in
\* the primary directory, and the backup's record has the message.
C17_Witness ==
  /\ last.action = "relock"
  /\ last.ret = "False"
  /\ deploy_prop[0] # NoProps
  /\ deploy_prop[Last(0)] # NoProps
  /\ deploy_prop[Last(0)].LAST_ERROR = "already exists"
  /\ deploy_prop[0].DEPLOY # deploy_prop[Last(0)].DEPLOY


\* The invocation of process p is a relock that has raised ValueError: its
\* lock directory does not end in '.last'.
RelockInvalid(p) ==
  /\ inv[p].action = "relock"
  /\ inv[p].pc = "exc"
  /\ inv[p].why = "not .last"

\* C18 as stated (scenario D): a relock on a path that does not end in '.last'
\* ends having changed no directory and no property file.
C18_NoFilesystemChange ==
  [][\A p \in Procs :
       (RelockInvalid(p) /\ inv'[p].pc = "idle")
       => UNCHANGED <<dirs, deploy_prop>>]_vars

\* C18, amended: a relock dispatched on path 0, which does not end in '.last',
\* and that passes the checks of main(), raises before it touches anything;
\* main() then returns False, no directory is renamed, made or removed, and
\* the property file of that path is rewritten as the record that was loaded,
\* with the message in LAST_ERROR.
C18_RelockNotLast ==
  [][/\ (ndispatch' # ndispatch /\ _read_properties(0) = "ok")
        => \A p \in Procs, token \in Tokens :
             ( /\ MainOther(p, "relock", 0, token)
               /\ Rejected("relock", token, deploy_prop[0]) = "" )
             => /\ (RelockInvalid(p))'
                /\ inv'[p].props = deploy_prop[0]
                /\ UNCHANGED <<dirs, deploy_prop>>
     /\ \A p \in Procs :
          (RelockInvalid(p) /\ inv'[p].pc = "idle")
          => /\ last'.ret = "False"
             /\ dirs' = dirs
             /\ deploy_prop' =
                  [deploy_prop EXCEPT ![inv[p].props.LOCKDIR] =
                     [inv[p].props EXCEPT !.LAST_ERROR = "not .last"]]]_vars

\* A relock on the primary path has returned False and left its message in
\* the record there.
C18_Witness ==
  /\ last.action = "relock"
  /\ last.ret = "False"
  /\ deploy_prop[0] # NoProps
  /\ deploy_prop[0].LAST_ERROR = "not .last"


\* C19 (scenario A): the record an acquire-lock has just built has
\* POSSIBLE_NEXT_STEPS = acquire-lock and the four escape hatches; and when
\* its handler has completed, the lock directory exists and the record in it
\* has POSSIBLE_NEXT_STEPS = merge-from-master and the four escape hatches.
C19_ScenarioA ==
  [][\A p \in Procs :
       /\ ( /\ inv[p].pc = "idle"
            /\ inv'[p].action = "acquire-lock"
            /\ inv'[p].pc = "acq_loop" )
          => inv'[p].props.POSSIBLE_NEXT_STEPS = {"acquire-lock"} \cup AlwaysPossible
       /\ ( /\ inv[p].action = "acquire-lock"
            /\ inv[p].pc = "acq_update"
            /\ inv'[p].pc = "fin_exists" )
          => /\ 0 \in dirs'
             /\ deploy_prop'[0].POSSIBLE_NEXT_STEPS =
                  {"merge-from-master"} \cup AlwaysPossible]_vars


\* C20 (scenario B): when merge-from-master has done its work and its update
\* is written, the record in the lock directory has POSSIBLE_NEXT_STEPS =
\* set-default, finish-with-success and the four escape hatches if AUTO_DEPLOY,
\* and manual-test, finish-with-success and the four escape hatches if not.
C20_MergeSuccessors ==
  [][\A p \in Procs :
       ( /\ inv[p].action = "merge-from-master"
         /\ inv[p].pc = "upd"
         /\ inv'[p].pc = "fin_exists" )
       => LET stored == deploy_prop'[inv[p].props.LOCKDIR]
          IN  /\ stored # NoProps
              /\ stored.POSSIBLE_NEXT_STEPS =
                   IF inv[p].props.AUTO_DEPLOY
                   THEN {"set-default", "finish-with-success", "finish-with-failure",
                         "finish-with-rollback", "finish-with-unlock", "relock"}
                   ELSE {"manual-test", "finish-with-success", "finish-with-failure",
                         "finish-with-rollback", "finish-with-unlock", "relock"}]_vars

\* A merge-from-master without AUTO_DEPLOY has just stored its update.
C20_Witness ==
  \E p \in Procs :
    /\ inv[p].action = "merge-from-master"
    /\ inv[p].pc = "fin_exists"
    /\ ~inv[p].props.AUTO_DEPLOY
    /\ deploy_prop[inv[p].props.LOCKDIR] # NoProps
    /\ "manual-test" \in deploy_prop[inv[p].props.LOCKDIR].POSSIBLE_NEXT_STEPS

\* C21 (scenario C): when set-default has run with AUTO_DEPLOY true and
\* raised the MonitoringError, the next step of the invocation ends main() with
\* False, the record on disk has the MonitoringError as LAST_ERROR, the lock
\* directory and its record are still there, the record's POSSIBLE_NEXT_STEPS
\* are those it had when the invocation read it, and main() does not reject
\* finish-with-rollback with the deploy's token on that record.
C21_ScenarioC ==
  [][\A p \in Procs :
       ( /\ inv[p].action = "set-default"
         /\ inv[p].pc = "exc"
         /\ inv[p].why = "MonitoringError"
         /\ inv[p].props.AUTO_DEPLOY
         /\ inv'[p] # inv[p] )
       => LET lockdir == inv[p].props.LOCKDIR
          IN  /\ inv'[p].pc = "idle" /\ last'.ret = "False"
              /\ Persisted(p, "MonitoringError")
              /\ lockdir \in dirs'
              /\ deploy_prop'[lockdir].POSSIBLE_NEXT_STEPS =
                   inv[p].props.POSSIBLE_NEXT_STEPS
              /\ Rejected("finish-with-rollback", inv[p].props.TOKEN,
                          deploy_prop'[lockdir]) = ""]_vars

\* The handler of finish-with-rollback has run on the record that a
\* set-default with AUTO_DEPLOY left with the MonitoringError.
C21_Witness ==
  \E p \in Procs :
    /\ inv[p].action = "finish-with-rollback"
    /\ inv[p].pc \in {"rel_rmold", "exc"}
    /\ inv[p].props.AUTO_DEPLOY
    /\ inv[p].props.LAST_ERROR = "MonitoringError"
    /\ "set-default" \in inv[p].props.POSSIBLE_NEXT_STEPS

\* The step dispatches finish-with-rollback on process p and its handler runs.
RollbackRuns(p) ==
  /\ ndispatch' # ndispatch
  /\ inv[p].pc = "idle"
  /\ inv'[p].pc # "idle"
  /\ inv'[p].action = "finish-with-rollback"

\* C22: rollback no-op.  When the default version on appengine is not the
\* record's version, _rollback_deploy tags nothing, pushes nothing, does not
\* call the deploy script, and returns True: the default version and the tags
\* are as before, and finish_with_rollback goes on to release the lock.
C22_RollbackNoop ==
  [][\A p \in Procs :
       ( /\ RollbackRuns(p)
         /\ gae # inv'[p].props.DEPLOY
         /\ inv'[p].why # "URLError" )
       => /\ inv'[p].calls = {}
          /\ git' = git
          /\ gae' = gae
          /\ inv'[p].pc = "rel_rmold"]_vars

\* finish-with-rollback found another default version than the record's and
\* went on to the release.
C22_Witness ==
  \E p \in Procs :
    /\ inv[p].action = "finish-with-rollback"
    /\ inv[p].pc = "rel_rmold"
    /\ gae # inv[p].props.DEPLOY
    /\ inv[p].calls = {}
    /\ git = NoTags

\* ------------------------------------------------ deploy.prop as text

\* The longest exception message, in characters.
MaxLen == 3

\* The latest int(time.time()) stored as LOCK_ACQUIRE_TIME.
MaxStamp == 12

\* The characters of an exception message: a letter, a blank, an equals sign
\* and a newline.
Alphabet == {"a", " ", "=", "\n"}

\* What str.strip() strips, of the Alphabet.
Whitespace == {" ", "\n"}

Digits == <<"0", "1", "2", "3", "4", "5", "6", "7", "8", "9">>

Capitals ==
  <<"A", "B", "C", "D", "E", "F", "G", "H", "I", "J", "K", "L", "M",
    "N", "O", "P", "Q", "R", "S", "T", "U", "V", "W", "X", "Y", "Z">>

\* The keys of the record, of which the text keeps three.
LAST_ERROR == <<"L", "A", "S", "T", "_", "E", "R", "R", "O", "R">>

LOCKDIR == <<"L", "O", "C", "K", "D", "I", "R">>

LOCK_ACQUIRE_TIME ==
  <<"L", "O", "C", "K", "_", "A", "C", "Q", "U", "I", "R", "E", "_", "T", "I", "M", "E">>

\* The --lockdir of the record looked at as text.
LockdirText == <<"/", "a">>

\* ord(c).
Ord(c) ==
  CASE c = "\n" -> 10
    [] c = " " -> 32
    [] c = "/" -> 47
    [] c = "=" -> 61
    [] c = "_" -> 95
    [] c = "a" -> 97
    [] \E n \in 1..10 : Digits[n] = c -> 47 + (CHOOSE n \in 1..10 : Digits[n] = c)
    [] OTHER -> 64 + (CHOOSE n \in 1..26 : Capitals[n] = c)

\* '%s' % n, for an int n that is not negative.
RECURSIVE Str(_)
Str(n) == IF n < 10 THEN <<Digits[n + 1]>> ELSE Str(n \div 10) \o <<Digits[(n % 10) + 1]>>

\* s < t, for strings.
RECURSIVE Less(_, _)
Less(s, t) ==
  IF s = <<>> THEN t # <<>>
  ELSE IF t = <<>> THEN FALSE
  ELSE IF Head(s) = Head(t) THEN Less(Tail(s), Tail(t))
  ELSE Ord(Head(s)) < Ord(Head(t))

\* sorted(keys).
RECURSIVE Sorted(_)
Sorted(keys) ==
  IF keys = {} THEN <<>>
  ELSE LET k == CHOOSE k \in keys : \A other \in keys \ {k} : Less(k, other)
       IN  <<k>> \o Sorted(keys \ {k})

\* The lines of _write_properties for the keys in order: print >>f, '%s=%s'.
RECURSIVE Lines(_, _)
Lines(props, keys) ==
  IF keys = <<>> THEN <<>>
  ELSE Head(keys) \o <<"=">> \o props[Head(keys)] \o <<"\n">>
       \o Lines(props, Tail(keys))

\* The text _write_properties(props) leaves in deploy.prop.
_write_properties(props) == Lines(props, Sorted(DOMAIN props))

\* f.readlines(): the lines of the text, each with its newline.
RECURSIVE readlines(_)
readlines(text) ==
  IF text = <<>> THEN <<>>
  ELSE IF \E n \in 1..Len(text) : text[n] = "\n"
  THEN LET n == CHOOSE n \in 1..Len(text) :
                  text[n] = "\n" /\ \A m \in 1..(n - 1) : text[m] # "\n"
       IN  <<SubSeq(text, 1, n)>> \o readlines(SubSeq(text, n + 1, Len(text)))
  ELSE <<text>>

\* l.strip().
RECURSIVE strip(_)
strip(l) ==
  IF l = <<>> THEN l
  ELSE IF Head(l) \in Whitespace THEN strip(Tail(l))
  ELSE IF l[Len(l)] \in Whitespace THEN strip(SubSeq(l, 1, Len(l) - 1))
  ELSE l

\* l.split('=', 1): the key and the value, or <<l>> when l has no '='.
split(l) ==
  IF \E n \in 1..Len(l) : l[n] = "="
  THEN LET n == CHOOSE n \in 1..Len(l) : l[n] = "=" /\ \A m \in 1..(n - 1) : l[m] # "="
       IN  <<SubSeq(l, 1, n - 1), SubSeq(l, n + 1, Len(l))>>
  ELSE <<l>>

\* The dict the loop of _read_properties builds from the lines, beginning
\* with retval; a later line overrides an earlier one with the same key.
RECURSIVE Parsed(_, _)
Parsed(lines, retval) ==
  IF lines = <<>> THEN retval
  ELSE LET kv == split(strip(Head(lines)))
           keys == DOMAIN retval \cup {kv[1]}
       IN  Parsed(Tail(lines),
                  [k \in keys |-> IF k = kv[1] THEN kv[2] ELSE retval[k]])

\* _read_properties(lockdir) of a deploy.prop with this text: the exception
\* it raises ("" for none) and the dict it returns.
ReadText(text, lockdir) ==
  LET lines == readlines(text)
      retval == Parsed(lines, <<>>)
  IN  IF \E n \in 1..Len(lines) : Len(split(strip(lines[n]))) < 2
      THEN [raised |-> "ValueError", props |-> <<>>]
      ELSE IF LOCKDIR \notin DOMAIN retval
      THEN [raised |-> "KeyError", props |-> <<>>]
      ELSE IF retval[LOCKDIR] # lockdir
      THEN [raised |-> "AssertionError", props |-> <<>>]
      ELSE [raised |-> "", props |-> retval]

\* The exception messages of at most n characters.
RECURSIVE Messages(_)
Messages(n) ==
  IF n = 0 THEN {<<>>}
  ELSE Messages(n - 1) \cup {Append(m, c) : m \in Messages(n - 1), c \in Alphabet}



\* A record as _update_properties hands it to _write_properties: str(why) as
\* LAST_ERROR and int(time.time()) as LOCK_ACQUIRE_TIME.
TextInit ==
  /\ dirs = {}
  /\ deploy_prop = [d \in Paths |-> NoProps]
  /\ inv = [p \in Procs |-> Idle]
  /\ last = NoEnd
  /\ ndispatch = 0
  /\ noverlap = 0
  /\ ndeploys = 0
  /\ now = 0
  /\ gae = 0
  /\ git = NoTags
  /\ mkdirs = 0
  /\ holders = {}
  /\ completed = [d \in Deploys |-> {}]
  /\ let_go = NotLetGo
  /\ wait = NoWait
  /\ \E why \in Messages(MaxLen), time \in 0..MaxStamp :
       io = [pc |-> "write",
             props |-> [k \in {LAST_ERROR, LOCKDIR, LOCK_ACQUIRE_TIME} |->
                          CASE k = LAST_ERROR -> why
                            [] k = LOCKDIR -> LockdirText
                            [] OTHER -> Str(time)]]

World == <<dirs, deploy_prop, inv, last, ndispatch, noverlap, ndeploys, now,
           gae, git, mkdirs, holders, completed, let_go, wait>>

\* _write_properties(props).
TextWrite ==
  /\ io.pc = "write"
  /\ io' = [pc |-> "read", props |-> io.props, file |-> _write_properties(io.props)]
  /\ UNCHANGED World

\* _read_properties(lockdir) of the file written.
TextRead ==
  /\ io.pc = "read"
  /\ LET r == ReadText(io.file, LockdirText)
     IN  io' = [pc |-> IF r.raised = "" THEN "rewrite" ELSE r.raised,
                props |-> io.props, file |-> io.file, back |-> r.props]
  /\ UNCHANGED World

\* _write_properties of the record read.
TextRewrite ==
  /\ io.pc = "rewrite"
  /\ io' = [pc |-> "done", props |-> io.props, file |-> io.file, back |-> io.back,
            again |-> _write_properties(io.back)]
  /\ UNCHANGED World

TextNext == TextWrite \/ TextRead \/ TextRewrite

\* A record is written, read back, and written again.
TextSpec == TextInit /\ [][TextNext]_vars

\* C23: record round-trip.  A deploy.prop that was written can be read back,
\* and writing the record read gives the text of the first write.
C23_RoundTrip ==
  /\ io.pc \notin {"ValueError", "KeyError", "AssertionError"}
  /\ io.pc = "done" => io.again = io.file

\* --------------------------------------------- _write_properties in steps

\* The steps of main() that call _write_properties.
Writes ==
  {"acq_write", "acq_update", "upd", "mv_update", "rl_update", "fin_update", "exc"}

\* The lock directory whose deploy.prop the next step of invocation i writes.
WrittenNext(i) ==
  IF i.pc = "mv_update" THEN NewLockdir(i.action, i.props.LOCKDIR)
  ELSE i.props.LOCKDIR

\* open(os.path.join(props['LOCKDIR'], 'deploy.prop'), 'w'): the file is
\* there without a line until the with block is left, which is the step of p
\* that follows.
OpenToWrite(p) ==
  /\ inv[p].pc \in Writes
  /\ CanWrite(WrittenNext(inv[p]))
  /\ deploy_prop[WrittenNext(inv[p])] # NoLines
  /\ deploy_prop' = [deploy_prop EXCEPT ![WrittenNext(inv[p])] = NoLines]
  /\ last' = NoEnd
  /\ UNCHANGED <<dirs, inv, ndispatch, noverlap, ndeploys, now, io, wait, gae, git,
                 mkdirs, holders, completed, let_go>>

TornNext == PipeNext \/ \E p \in Procs : OpenToWrite(p)

\* As PipeSpec, with the opening of deploy.prop and the writing of its lines
\* as two steps.
TornSpec == Init /\ [][TornNext]_vars

\* C24: atomic record write.  No invocation reads a deploy.prop that another
\* is writing and finds it without a line.
C24_AtomicWrite == last.note # "no line"

\* C25: acquire timeout.  When the busy-wait of an acquire-lock ends and the
\* directory was not made, the alert of severity ERROR about the stuck lock
\* has been sent and the exception is the RuntimeError "Timed out waiting on
\* the current lock-holder", whether the holder's record could be read at the
\* start or not.
C25_AcquireTimeout ==
  [][\A p \in Procs :
       ( /\ inv[p].action = "acquire-lock"
         /\ inv[p].pc = "acq_loop"
         /\ inv'[p].pc = "idle" )
       => /\ last'.ret = "False"
          /\ last'.alert # ""
          /\ last'.why = "Timed out"]_vars

\* C26: rollback never raises.  Whatever fails in _rollback_deploy, no
\* exception leaves it: it returns True and finish_with_rollback goes on, or
\* it sends the critical alert and returns False, and finish_with_rollback
\* raises its RuntimeError.
C26_RollbackNeverRaises ==
  [][\A p \in Procs :
       RollbackRuns(p) =>
         \/ inv'[p].why = ""
         \/ /\ inv'[p].why = "Failed to roll back"
            /\ inv'[p].alert = "Auto-rollback failed"]_vars

\* Process p takes a step of finish-with-rollback on the primary lock
\* directory from one of these pcs.
RollbackStepAt(p, pcs) ==
  /\ inv[p].action = "finish-with-rollback"
  /\ inv[p].pc \in pcs
  /\ inv[p].props.LOCKDIR = 0
  /\ inv'[p] # inv[p]

\* C27: finish-with-rollback releases the lock only after a rollback that
\* succeeded.  When _rollback_deploy returns False nothing is released:
\* main() returns False, the primary directory and its record are there with
\* the RuntimeError's message as LAST_ERROR, and no directory is made, renamed
\* or removed.  The release begins only when _rollback_deploy has returned
\* True, the default version being the rollback target if it was the record's
\* version; then the release goes through, and the record is in the backup.
C27_ReleaseAfterRollback ==
  [][\A p \in Procs :
       /\ (RollbackRuns(p) /\ inv'[p].why = "Failed to roll back")
          => UNCHANGED <<dirs, deploy_prop>>
       /\ (RollbackRuns(p) /\ inv'[p].pc = "rel_rmold")
          => /\ inv'[p].alert = ""
             /\ gae = inv'[p].props.DEPLOY => gae' = inv'[p].props.ROLLBACK_TO
       /\ (RollbackStepAt(p, {"exc"}) /\ inv[p].why = "Failed to roll back")
          => /\ last'.ret = "False"
             /\ dirs' = dirs /\ 0 \in dirs
             /\ Persisted(p, "Failed to roll back")
             /\ deploy_prop'[Last(0)] = deploy_prop[Last(0)]
       /\ RollbackStepAt(p, {"rel_rmold", "mv_exists", "mv_rename", "mv_update"})
          => inv'[p].pc # "exc"
       /\ RollbackStepAt(p, {"mv_update"})
          => /\ Last(0) \in dirs'
             /\ deploy_prop'[Last(0)] # NoProps
             /\ deploy_prop'[Last(0)].DEPLOY = inv[p].props.DEPLOY
             /\ deploy_prop'[0] # NoProps
                => deploy_prop'[0].DEPLOY # inv[p].props.DEPLOY]_vars

\* A finish-with-rollback whose _rollback_deploy returned False has ended:
\* the lock directory is there with the message, and there is no backup.
C27_Witness ==
  /\ last.action = "finish-with-rollback"
  /\ last.ret = "False"
  /\ last.why = "Failed to roll back"
  /\ 0 \in dirs /\ Last(0) \notin dirs
  /\ deploy_prop[0].LAST_ERROR = "Failed to roll back"

\* ------------------------------------------------ the busy-wait, turn by turn

\* The longest time the holder has held the lock when the busy-wait begins,
\* in seconds.
MaxHeld == 20

\* acquire_deploy_lock has read the holder's record: waited_sec is
\* int(time.time()) - LOCK_ACQUIRE_TIME, or 0 when the record was not there.
WaitInit ==
  /\ dirs = {}
  /\ deploy_prop = [d \in Paths |-> NoProps]
  /\ inv = [p \in Procs |-> Idle]
  /\ last = NoEnd
  /\ ndispatch = 0
  /\ noverlap = 0
  /\ ndeploys = 0
  /\ now = 0
  /\ gae = 0
  /\ git = NoTags
  /\ mkdirs = 0
  /\ holders = {}
  /\ completed = [d \in Deploys |-> {}]
  /\ let_go = NotLetGo
  /\ io = NoText
  /\ \E held \in 0..MaxHeld :
       wait = [pc |-> "loop", waited_sec |-> held, done_first_alert |-> FALSE,
               first |-> <<>>, still |-> <<>>]

\* One turn of the while loop in which os.mkdir raises EEXIST: "You're next
\* in line" if no alert was sent yet, else "You're still next in line" if
\* waited_sec % notify_sec == 0; then time.sleep(10) and waited_sec += 10.
WaitTurn ==
  /\ wait.pc = "loop"
  /\ wait.waited_sec < wait_sec
  /\ wait' = [wait EXCEPT
       !.done_first_alert = TRUE,
       !.first = IF ~wait.done_first_alert THEN Append(@, wait.waited_sec) ELSE @,
       !.still = IF wait.done_first_alert /\ wait.waited_sec % notify_sec = 0
                 THEN Append(@, wait.waited_sec) ELSE @,
       !.waited_sec = @ + sleep_sec]
  /\ UNCHANGED <<dirs, deploy_prop, inv, last, ndispatch, noverlap, ndeploys, now,
                 gae, git, mkdirs, holders, completed, let_go, io>>

\* The while loop is left: waited_sec has reached wait_sec.
WaitOver ==
  /\ wait.pc = "loop"
  /\ wait.waited_sec >= wait_sec
  /\ wait' = [wait EXCEPT !.pc = "timed out"]
  /\ UNCHANGED <<dirs, deploy_prop, inv, last, ndispatch, noverlap, ndeploys, now,
                 gae, git, mkdirs, holders, completed, let_go, io>>

WaitNext == WaitTurn \/ WaitOver

\* An acquire_deploy_lock waits for a lock that is not released.
WaitSpec == WaitInit /\ [][WaitNext]_vars

\* The waited_sec at which the last alert of the busy-wait was sent.
LastAlert ==
  IF wait.still # <<>> THEN wait.still[Len(wait.still)] ELSE wait.first[1]

\* C28: queue notification cadence.  In a busy-wait "You're next in line" is
\* sent once and before any "You're still next in line", and once it is sent
\* no notify_sec seconds of waited_sec go by without an alert, whatever
\* waited_sec was at the start.
C28_NotificationCadence ==
  /\ Len(wait.first) <= 1
  /\ wait.still # <<>> => (wait.first # <<>> /\ wait.first[1] < wait.still[1])
  /\ wait.first # <<>> => wait.waited_sec - LastAlert <= notify_sec

\* C29: recovery suggestion tie-break.  The alert about the stuck lock that
\* an acquire-lock sends when its wait is over suggests what the
\* POSSIBLE_NEXT_STEPS of the record then in the lock directory call for:
\* to cancel the deploy if they hold merge-from-master, manual-test or
\* set-default, else to finish with success or roll back if they hold
\* finish-with-success, else to release the lock.
C29_SuggestionFromHolder ==
  ( /\ last.action = "acquire-lock"
    /\ last.alert # ""
    /\ deploy_prop[0] # NoProps )
  => last.alert = Suggestion(deploy_prop[0].POSSIBLE_NEXT_STEPS)

\* set_default has alerted about a regression or about another failure.
SetDefaultFailed(i) ==
  /\ i.action = "set-default"
  /\ ~i.props.AUTO_DEPLOY
  /\ i.alert \in {"MonitoringError", "set-default failed"}

\* C30: manual mode leaves the deploy pending.  When set-default runs
\* without AUTO_DEPLOY and the monitoring reports a regression, or another
\* call of the switch fails, set_default returns: main() stores the next steps
\* and returns True, no lock directory is made, renamed or removed, and main()
\* does not reject finish-with-success or finish-with-rollback with the
\* deploy's token on the record it leaves.
C30_ManualModePending ==
  [][\A p \in Procs :
       /\ ( /\ ndispatch' # ndispatch
            /\ inv[p].pc = "idle"
            /\ inv'[p].pc # "idle"
            /\ SetDefaultFailed(inv'[p]) )
          => inv'[p].pc = "upd" /\ dirs' = dirs
       /\ ( /\ inv[p].pc # "idle"
            /\ SetDefaultFailed(inv[p])
            /\ inv'[p] # inv[p] )
          => LET lockdir == inv[p].props.LOCKDIR
             IN  /\ inv'[p].pc # "exc"
                 /\ dirs' = dirs /\ lockdir \in dirs
                 /\ inv'[p].pc = "idle" =>
                      /\ last'.ret = "True"
                      /\ deploy_prop'[lockdir] # NoProps
                      /\ deploy_prop'[lockdir].LAST_ERROR = ""
                      /\ Rejected("finish-with-success", inv[p].props.TOKEN,
                                  deploy_prop'[lockdir]) = ""
                      /\ Rejected("finish-with-rollback", inv[p].props.TOKEN,
                                  deploy_prop'[lockdir]) = ""]_vars

\* A set-default without AUTO_DEPLOY whose monitoring reported a regression
\* has returned True, and the lock directory is there.
C30_Witness ==
  /\ last.action = "set-default"
  /\ last.ret = "True"
  /\ last.alert = "MonitoringError"
  /\ 0 \in dirs
  /\ deploy_prop[0] # NoProps
  /\ ~deploy_prop[0].AUTO_DEPLOY
  /\ "finish-with-success" \in deploy_prop[0].POSSIBLE_NEXT_STEPS

\* Process p is in finish_with_success, for finish-with-success or for a
\* set-default with AUTO_DEPLOY.
Succeeding(i) ==
  \/ i.action = "finish-with-success"
  \/ i.action = "set-default" /\ i.props.AUTO_DEPLOY

\* C31: finish-with-success ordering.  finish_with_success begins to release
\* the lock only when the deploy's commit has been merged into master and
\* pushed; when merge_to_master fails, origin/master is as it was, no
\* directory or record changes before main() stores the message and returns
\* False, and the lock directory and its record are still there then.  The
\* release removes the directory and keeps no backup.
C31_MergeBeforeRelease ==
  [][\A p \in Procs :
       /\ ( /\ ndispatch' # ndispatch
            /\ inv[p].pc = "idle"
            /\ inv'[p].pc # "idle"
            /\ Succeeding(inv'[p]) )
          => /\ inv'[p].pc = "rel_rmold" => git'.master = inv'[p].props.DEPLOY
             /\ inv'[p].why = "merge to master failed"
                => git'.master = git.master /\ UNCHANGED <<dirs, deploy_prop>>
       /\ ( /\ Succeeding(inv[p])
            /\ inv[p].pc = "exc"
            /\ inv[p].why = "merge to master failed"
            /\ inv[p].props.LOCKDIR = 0
            /\ inv'[p] # inv[p] )
          => /\ last'.ret = "False"
             /\ dirs' = dirs /\ 0 \in dirs
             /\ Persisted(p, "merge to master failed")
       /\ ( /\ Succeeding(inv[p])
            /\ inv[p].pc = "rel_rmtree"
            /\ inv[p].props.LOCKDIR = 0
            /\ inv'[p] # inv[p] )
          => /\ inv'[p].pc = "fin_exists"
             /\ 0 \notin dirs' /\ Last(0) \notin dirs']_vars

\* A finish-with-success has merged the deploy's commit into master and
\* removed the lock directory.
C31_Witness ==
  \E p \in Procs :
    /\ inv[p].action = "finish-with-success"
    /\ inv[p].pc = "fin_exists"
    /\ git.master = inv[p].props.DEPLOY
    /\ dirs = {}

\* C32: the result of a rollback reflects the traffic switch, not the
\* tagging.  When the record's version is the default one and
\* _rollback_deploy learns so, it makes ROLLBACK_TO the default version and
\* returns True, finish_with_rollback going on to the release, unless the
\* switch itself is the call that fails; a failure to tag the version as bad
\* or to push the tags changes nothing to that.
C32_ResultReflectsSwitch ==
  [][\A p \in Procs :
       ( /\ RollbackRuns(p)
         /\ gae = inv'[p].props.DEPLOY
         /\ inv'[p].why # "URLError"
         /\ ~("set_default" \in inv'[p].calls /\ "tag -l" \notin inv'[p].calls) )
       => /\ gae' = inv'[p].props.ROLLBACK_TO
          /\ inv'[p].pc = "rel_rmold"]_vars

\* The stages that come before the default version is set.
PreSwitch == {"merge-from-master", "manual-test", "set-default"}

\* C33: pre-switch stages imply not live.  Between invocations, when the
\* record in the primary lock directory has merge-from-master, manual-test or
\* set-default among its POSSIBLE_NEXT_STEPS, and not the wildcard of relock,
\* the default version on appengine is not the record's version.
C33_PreSwitchNotLive ==
  ( /\ \A p \in Procs : inv[p].pc = "idle"
    /\ 0 \in dirs
    /\ deploy_prop[0] \notin {NoProps, NoLines}
    /\ deploy_prop[0].LOCKDIR = 0
    /\ deploy_prop[0].POSSIBLE_NEXT_STEPS \cap PreSwitch # {}
    /\ "<all>" \notin deploy_prop[0].POSSIBLE_NEXT_STEPS )
  => gae # deploy_prop[0].DEPLOY

\* C34: self-referential lock path.  In every state, those between the
\* rename of _move_lockdir and its rewriting of the record too, a record in a
\* directory has that directory as its LOCKDIR.
C34_SelfReferentialPath ==
  \A d \in dirs :
    deploy_prop[d] \notin {NoProps, NoLines} => deploy_prop[d].LOCKDIR = d

\* --------------------------------------------- the deployer's derived fields

\* The longest DEPLOYER_EMAIL.
MaxEmail == 4

\* The characters of an email address.
EmailChars == {"a", "b", "@"}

\* The strings of at most n EmailChars, the empty one left out.
RECURSIVE Emails(_)
Emails(n) ==
  IF n = 1 THEN {<<c>> : c \in EmailChars}
  ELSE Emails(n - 1) \cup {Append(e, c) : e \in Emails(n - 1), c \in EmailChars}

\* The addresses among them: a name, an at sign and a domain.
Addresses ==
  {e \in Emails(MaxEmail) :
     /\ e[1] # "@"
     /\ e[Len(e)] # "@"
     /\ Cardinality({n \in 1..Len(e) : e[n] = "@"}) = 1}

\* The mention names hipchat knows.
MentionNames == {<<"a">>, <<"b">>}

\* What the users/list of hipchat can answer: one user with an email and a
\* mention_name, or none; none too when the fetch fails.
UserLists ==
  {{}} \cup {{[email |-> e, mention_name |-> m]} :
               e \in Addresses, m \in MentionNames}

\* email.split('@')[0].
RECURSIVE LocalPart(_)
LocalPart(email) ==
  IF email = <<>> \/ Head(email) = "@" THEN <<>>
  ELSE <<Head(email)>> \o LocalPart(Tail(email))

\* _email_to_hipchat_name(email), users being what hipchat lists:
\* email_to_mention_name.get(email, '@%s' % email.split('@')[0]).
_email_to_hipchat_name(email, users) ==
  IF \E u \in users : u.email = email
  THEN <<"@">> \o (CHOOSE u \in users : u.email = email).mention_name
  ELSE <<"@">> \o LocalPart(email)

\* The fields _create_properties derives from DEPLOYER_EMAIL.
CreatedIdentity(email, users) ==
  [DEPLOYER_EMAIL |-> email,
   DEPLOYER_USERNAME |-> LocalPart(email),
   DEPLOYER_HIPCHAT_NAME |-> _email_to_hipchat_name(email, users)]

\* The new_values of _update_properties(props, {'DEPLOYER_EMAIL': email}),
\* with the defaults it sets: the hipchat name is looked up for
\* DEPLOYER_USERNAME.
UpdatedIdentity(email, users) ==
  LET username == LocalPart(email)
  IN  [DEPLOYER_EMAIL |-> email,
       DEPLOYER_USERNAME |-> username,
       DEPLOYER_HIPCHAT_NAME |-> _email_to_hipchat_name(username, users)]

\* A deployer, and what hipchat lists.
IdentityInit ==
  /\ dirs = {}
  /\ deploy_prop = [d \in Paths |-> NoProps]
  /\ inv = [p \in Procs |-> Idle]
  /\ last = NoEnd
  /\ ndispatch = 0
  /\ noverlap = 0
  /\ ndeploys = 0
  /\ now = 0
  /\ gae = 0
  /\ git = NoTags
  /\ mkdirs = 0
  /\ holders = {}
  /\ completed = [d \in Deploys |-> {}]
  /\ let_go = NotLetGo
  /\ wait = NoWait
  /\ \E email \in Addresses, users \in UserLists :
       io = [pc |-> "create", email |-> email, users |-> users]

\* _create_properties for the deployer.
IdentityCreate ==
  /\ io.pc = "create"
  /\ io' = [pc |-> "update", email |-> io.email, users |-> io.users,
            created |-> CreatedIdentity(io.email, io.users)]
  /\ UNCHANGED World

\* _update_properties(props, {'DEPLOYER_EMAIL': email}) for the same deployer.
IdentityUpdate ==
  /\ io.pc = "update"
  /\ io' = [pc |-> "updated", email |-> io.email, users |-> io.users,
            created |-> io.created,
            updated |-> UpdatedIdentity(io.email, io.users)]
  /\ UNCHANGED World

IdentityNext == IdentityCreate \/ IdentityUpdate

\* The derived fields of one deployer, by _create_properties and by
\* _update_properties.
IdentitySpec == IdentityInit /\ [][IdentityNext]_vars

\* C35: derived identity fields are consistent between create and update.
\* For every DEPLOYER_EMAIL and every answer of hipchat's user list,
\* _update_properties(props, {'DEPLOYER_EMAIL': email}) gives the
\* DEPLOYER_USERNAME and the DEPLOYER_HIPCHAT_NAME that _create_properties
\* derives for that email.
C35_IdentityConsistent ==
  io.pc = "updated"
  => /\ io.updated.DEPLOYER_USERNAME = io.created.DEPLOYER_USERNAME
     /\ io.updated.DEPLOYER_HIPCHAT_NAME = io.created.DEPLOYER_HIPCHAT_NAME

MaxWait == 25

\* The wait_sec of acquire_deploy_lock.
WaitSeconds == 0..MaxWait \cup {wait_sec}

\* waited_sec as the loop begins: 0 when the holder's record could not be
\* read, else the time the holder has held the lock; polls counts the
\* os.mkdir calls.  exists: the lock directory is there.  freed: it was
\* removed while waited_sec < wait_sec; retaken: another process has made it
\* since.
PollInit ==
  /\ dirs = {}
  /\ deploy_prop = [d \in Paths |-> NoProps]
  /\ inv = [p \in Procs |-> Idle]
  /\ last = NoEnd
  /\ ndispatch = 0
  /\ noverlap = 0
  /\ ndeploys = 0
  /\ now = 0
  /\ gae = 0
  /\ git = NoTags
  /\ mkdirs = 0
  /\ holders = {}
  /\ completed = [d \in Deploys |-> {}]
  /\ let_go = NotLetGo
  /\ io = NoText
  /\ \E w \in WaitSeconds, held \in 0..MaxHeld, exists \in BOOLEAN :
       wait = [pc |-> "while", wait_sec |-> w,
               waited_sec |-> IF exists THEN held ELSE 0, polls |-> 0,
               exists |-> exists, freed |-> FALSE, retaken |-> FALSE]

\* "while waited_sec < wait_sec", and the os.mkdir of the turn: the lock is
\* acquired, or EEXIST.  When the loop is left the wait has timed out.
PollMkdir ==
  /\ wait.pc = "while"
  /\ wait' = IF wait.waited_sec >= wait.wait_sec
             THEN [wait EXCEPT !.pc = "timed out"]
             ELSE IF wait.exists
             THEN [wait EXCEPT !.pc = "sleep", !.polls = @ + 1]
             ELSE [wait EXCEPT !.pc = "acquired", !.polls = @ + 1, !.exists = TRUE]
  /\ UNCHANGED <<dirs, deploy_prop, inv, last, ndispatch, noverlap, ndeploys, now,
                 gae, git, mkdirs, holders, completed, let_go, io>>

\* A waiter that sleeps without counting the seconds.
PollSleepUncounted ==
  /\ wait.pc = "sleep"
  /\ wait' = [wait EXCEPT !.pc = "while"]
  /\ UNCHANGED <<dirs, deploy_prop, inv, last, ndispatch, noverlap, ndeploys, now,
                 gae, git, mkdirs, holders, completed, let_go, io>>

\* time.sleep(10) and waited_sec += 10.
PollSleep ==
  /\ wait.pc = "sleep"
  /\ wait' = [wait EXCEPT !.pc = "while", !.waited_sec = @ + sleep_sec]
  /\ UNCHANGED <<dirs, deploy_prop, inv, last, ndispatch, noverlap, ndeploys, now,
                 gae, git, mkdirs, holders, completed, let_go, io>>

\* The holder releases the lock while the caller waits.
HolderReleases ==
  /\ wait.pc \in {"while", "sleep"}
  /\ wait.exists
  /\ wait' = [wait EXCEPT !.exists = FALSE,
                          !.freed = wait.waited_sec < wait.wait_sec,
                          !.retaken = FALSE]
  /\ UNCHANGED <<dirs, deploy_prop, inv, last, ndispatch, noverlap, ndeploys, now,
                 gae, git, mkdirs, holders, completed, let_go, io>>

\* Another process makes the lock directory while the caller waits.
OtherAcquires ==
  /\ wait.pc \in {"while", "sleep"}
  /\ ~wait.exists
  /\ wait' = [wait EXCEPT !.exists = TRUE, !.retaken = TRUE]
  /\ UNCHANGED <<dirs, deploy_prop, inv, last, ndispatch, noverlap, ndeploys, now,
                 gae, git, mkdirs, holders, completed, let_go, io>>

PollNext == PollMkdir \/ PollSleep \/ HolderReleases \/ OtherAcquires

\* The busy-wait of one caller, whatever the holder and other processes do.
\* The caller's process runs on: its next step is taken in the end.
PollSpec == PollInit /\ [][PollNext]_vars /\ WF_vars(PollMkdir \/ PollSleep)

\* ceil(w / sleep_sec).
Turns(w) == (w + sleep_sec - 1) \div sleep_sec

\* C37: acquire terminates.  Whatever wait_sec is, and whatever becomes of
\* the lock directory meanwhile, the busy-wait calls os.mkdir at most
\* ceil(wait_sec / 10) times, and it ends: the lock is acquired or the wait
\* has timed out.
C37_AcquireTerminates ==
  /\ [](wait.polls <= Turns(wait.wait_sec))
  /\ <>(wait.pc \in {"acquired", "timed out"})

\* A busy-wait with the default wait_sec has called os.mkdir
\* ceil(wait_sec / 10) times and has timed out.
C37_Witness ==
  /\ wait.pc = "timed out"
  /\ wait.wait_sec = wait_sec
  /\ wait.polls = Turns(wait_sec)

\* C38: a waiter gets a released lock.  When the holder releases the lock
\* while the caller's waited_sec is below wait_sec, and no other process
\* makes the directory, the caller's busy-wait does not time out: its next
\* os.mkdir acquires the lock.
C38_WaiterGetsLock ==
  ~( /\ wait.pc = "timed out"
     /\ wait.freed
     /\ ~wait.retaken
     /\ ~wait.exists )

====
